---- MODULE Spec2Model ----
(***************************************************************************)
(* Sales analytics pipeline: validate_and_filter and the aggregate         *)
(* functions of utils/data_processor.py, driven in the order of main.py;   *)
(* create_product_mapping and enrich_sales_data of utils/api_handler.py    *)
(* and generate_sales_report, which main.py does not call, driven on       *)
(* their own.                                                              *)
(*                                                                         *)
(* Representation.  A transaction is a record with the eight keys of the   *)
(* dictionaries built by parse_transactions.  The three ID strings are     *)
(* sequences of one-character strings (so that startswith is computed),    *)
(* Date is a sequence of character codes (so that sorted() can compare),   *)
(* ProductName and Region are strings, Quantity is an integer.             *)
(* UnitPrice, every amount and every sum of amounts is a Python float: the *)
(* finite binary64 value hi * 2^53 + lo is the record [hi, lo], with lo    *)
(* far below 2^53, and the arithmetic rounds as binary64 does (to nearest, *)
(* ties to even).  NaN and the infinities are not among the inputs.        *)
(* A Python dict is the sequence of its items in insertion order.  An      *)
(* optional argument is <<>> (None) or <<v>> (the value v).                *)
(***************************************************************************)
EXTENDS Integers, Sequences, FiniteSets, TLC

VARIABLES
    transactions,        \* the parsed transactions handed to validate_and_filter
    region,              \* validate_and_filter argument region
    min_amount,          \* validate_and_filter argument min_amount
    max_amount,          \* validate_and_filter argument max_amount
    pc,                  \* position in main
    valid_transactions,  \* main: valid_transactions
    invalid_count,       \* main: invalid_count
    summary,             \* main: summary
    total_revenue,       \* main: total_revenue
    region_stats,        \* main: region_stats
    daily_trend,         \* main: daily_trend
    peak,                \* main: (peak_date, peak_revenue, peak_txn_count)
    top_products,        \* main: top_products
    low_products,        \* main: low_products
    customers,           \* main: customers
    report_written,      \* main: report_path.write_text has run
    api_products,        \* create_product_mapping argument api_products
    product_mapping,     \* the mapping returned by create_product_mapping
    enriched_transactions,  \* the list returned by enrich_sales_data
    report               \* what generate_sales_report wrote to its output file

vars == <<transactions, region, min_amount, max_amount, pc, valid_transactions,
          invalid_count, summary, total_revenue, region_stats, daily_trend, peak,
          top_products, low_products, customers, report_written,
          api_products, product_mapping, enriched_transactions, report>>

\* the variables of the enrichment and of generate_sales_report, which main
\* does not call
apiVars == <<api_products, product_mapping, enriched_transactions, report>>

-----------------------------------------------------------------------------
(* Bounds of the model *)

MaxLen == 2          \* longest input of the specification of the checks
MaxFail == 2         \* most fields of one record that fail a structural check
MaxFilterLen == 3    \* longest input of the specification of the filters
MaxQty == 2          \* largest Quantity of the filter inputs
MaxTxns == 3         \* longest input of the pipeline specification
MaxN == 3            \* largest n asked of top_selling_products
MaxEnrichLen == 2    \* longest input of enrich_sales_data
MaxCatalog == 2      \* most products returned by the catalogue collaborator
MaxReportLen == 3    \* longest input of generate_sales_report

-----------------------------------------------------------------------------
(* Python values *)

None == <<>>
Some(v) == <<v>>

\* Python truthiness of an optional number: None and 0 are falsy
TruthyNum(x) == x # None /\ x[1] # 0

\* Python truthiness of an optional string: None and "" are falsy
TruthyStr(x) == x # None /\ x[1] # ""

\* str.startswith for a one-character prefix
StartsWith(s, c) == Len(s) >= 1 /\ s[1] = c

-----------------------------------------------------------------------------
(* Python floats *)

\* the float hi * 2^53 + lo
F(hi, lo) == [hi |-> hi, lo |-> lo]

\* float(n) of an int n far below 2^53, and 0.0
FloatOf(n) == F(0, n)
FZero == F(0, 0)

\* a < b and a <= b
FLess(a, b) == a.hi < b.hi \/ (a.hi = b.hi /\ a.lo < b.lo)
FLeq(a, b) == a = b \/ FLess(a, b)

\* the distance between neighbouring floats in [hi * 2^53, (hi + 1) * 2^53),
\* hi >= 1: 2 from 2^53 on, 4 from 2^54 on, ...
RECURSIVE Ulp(_)
Ulp(hi) == IF hi <= 1 THEN 2 ELSE 2 * Ulp(hi \div 2)

\* the float nearest to the real number hi * 2^53 + lo, ties to the even
\* mantissa; below 2^53 every integer is a float
Round(hi, lo) ==
    IF hi = 0 THEN F(0, lo)
    ELSE LET u == Ulp(hi)
             r == lo % u
             down == lo - r
         IN  IF 2 * r < u THEN F(hi, down)
             ELSE IF 2 * r > u THEN F(hi, down + u)
             ELSE IF (down \div u) % 2 = 0 THEN F(hi, down)
             ELSE F(hi, down + u)

\* a + b on floats
FAdd(a, b) == Round(a.hi + b.hi, a.lo + b.lo)

\* n * a, n an int and a a float
FMul(n, a) == Round(n * a.hi, n * a.lo)

\* t["Quantity"] * t["UnitPrice"]
Amount(t) == FMul(t.Quantity, t.UnitPrice)

-----------------------------------------------------------------------------
(* validate_and_filter *)

\* the condition of the first if of the loop: the record is counted invalid
\* (variants: Quantity 0 let through; the Region test left out)
RejectedQuantityZeroPasses(t) ==
    \/ t.Quantity < 0
    \/ FLeq(t.UnitPrice, FZero)
    \/ ~StartsWith(t.TransactionID, "T")
    \/ ~StartsWith(t.ProductID, "P")
    \/ ~StartsWith(t.CustomerID, "C")
    \/ t.Region = ""

RejectedMissingRegionCheck(t) ==
    \/ t.Quantity <= 0
    \/ FLeq(t.UnitPrice, FZero)
    \/ ~StartsWith(t.TransactionID, "T")
    \/ ~StartsWith(t.ProductID, "P")
    \/ ~StartsWith(t.CustomerID, "C")

Rejected(t) ==
    \/ t.Quantity <= 0
    \/ FLeq(t.UnitPrice, FZero)
    \/ ~StartsWith(t.TransactionID, "T")
    \/ ~StartsWith(t.ProductID, "P")
    \/ ~StartsWith(t.CustomerID, "C")
    \/ t.Region = ""

\* the three filter ifs: the record is skipped without being counted
FilteredOut(t, r, lo, hi) ==
    \/ TruthyStr(r) /\ t.Region # r[1]
    \/ TruthyNum(lo) /\ FLess(Amount(t), FloatOf(lo[1]))
    \/ TruthyNum(hi) /\ FLess(FloatOf(hi[1]), Amount(t))

\* one iteration of the for loop on the accumulator (valid, invalid_count)
\* (variants: the record put in front; a filtered record counted as invalid)
ValidateStepPrepend(acc, t, r, lo, hi) ==
    IF Rejected(t)
    THEN [acc EXCEPT !.invalid_count = @ + 1]
    ELSE IF FilteredOut(t, r, lo, hi)
         THEN acc
         ELSE [acc EXCEPT !.valid = <<t>> \o @]

ValidateStepCountFiltered(acc, t, r, lo, hi) ==
    IF Rejected(t) \/ FilteredOut(t, r, lo, hi)
    THEN [acc EXCEPT !.invalid_count = @ + 1]
    ELSE [acc EXCEPT !.valid = Append(@, t)]

ValidateStep(acc, t, r, lo, hi) ==
    IF Rejected(t)
    THEN [acc EXCEPT !.invalid_count = @ + 1]
    ELSE IF FilteredOut(t, r, lo, hi)
         THEN acc
         ELSE [acc EXCEPT !.valid = Append(@, t)]

RECURSIVE ValidateLoop(_, _, _, _, _)
ValidateLoop(ts, acc, r, lo, hi) ==
    IF ts = <<>> THEN acc
    ELSE ValidateLoop(Tail(ts), ValidateStep(acc, Head(ts), r, lo, hi), r, lo, hi)

\* the returned triple (valid, invalid_count, summary)
validate_and_filter(ts, r, lo, hi) ==
    LET acc == ValidateLoop(ts, [valid |-> <<>>, invalid_count |-> 0], r, lo, hi)
    IN  [valid |-> acc.valid,
         invalid_count |-> acc.invalid_count,
         summary |-> [total_input |-> Len(ts),
                      invalid_records |-> acc.invalid_count,
                      filtered_by_region |-> r,
                      min_amount |-> lo,
                      max_amount |-> hi,
                      final_valid |-> Len(acc.valid)]]

-----------------------------------------------------------------------------
(* Python helpers: for loops, dicts in insertion order, sorted, slices *)

\* a dict is the sequence of its items <<key, value>> in insertion order;
\* Find is the position of key k, or 0 when k is not in d
Find(d, k) ==
    LET I == {i \in 1..Len(d) : d[i][1] = k}
    IN  IF I = {} THEN 0 ELSE CHOOSE i \in I : TRUE

\* if k not in d: d[k] = init
SetDefault(d, k, init) == IF Find(d, k) = 0 THEN Append(d, <<k, init>>) ELSE d

\* list.sort / sorted, which are stable, also with reverse=True: the items of
\* s in the order in which item i comes ahead of item j when before[i][j],
\* that is when its key is smaller (greater with reverse=True), and two items
\* of which neither is before the other keep the order they have in s
RECURSIVE InsertSorted(_, _, _)
InsertSorted(sorted, i, before) ==
    IF sorted = <<>> THEN <<i>>
    ELSE IF before[i][Head(sorted)]
         THEN <<i>> \o sorted
         ELSE <<Head(sorted)>> \o InsertSorted(Tail(sorted), i, before)

RECURSIVE SortLoop(_, _, _, _)
SortLoop(sorted, i, n, before) ==
    IF i > n THEN sorted
    ELSE SortLoop(InsertSorted(sorted, i, before), i + 1, n, before)

StableSort(s, before) ==
    LET order == SortLoop(<<>>, 1, Len(s), before)
    IN  [k \in 1..Len(s) |-> s[order[k]]]

\* s[:n]
Take(s, n) ==
    IF n >= 0
    THEN SubSeq(s, 1, IF n < Len(s) THEN n ELSE Len(s))
    ELSE SubSeq(s, 1, IF Len(s) + n > 0 THEN Len(s) + n ELSE 0)

\* a < b on str, the strings given as sequences of character codes
RECURSIVE StrLess(_, _)
StrLess(a, b) ==
    IF b = <<>> THEN FALSE
    ELSE IF a = <<>> THEN TRUE
    ELSE IF Head(a) # Head(b) THEN Head(a) < Head(b)
    ELSE StrLess(Tail(a), Tail(b))

\* the float num / den, kept as the two floats it is computed from
Quotient(num, den) == [num |-> num, den |-> den]

-----------------------------------------------------------------------------
(* calculate_total_revenue *)

RECURSIVE RevenueLoop(_, _)
RevenueLoop(total, ts) ==
    IF ts = <<>> THEN total
    ELSE RevenueLoop(FAdd(total, Amount(Head(ts))), Tail(ts))

calculate_total_revenue(ts) == RevenueLoop(FZero, ts)

-----------------------------------------------------------------------------
(* region_wise_sales *)

\* the body of the accumulation loop
\* (variant: = in place of += on total_sales)
RegionStepOverwrite(stats, t) ==
    LET s0 == SetDefault(stats, t.Region, [total_sales |-> FZero, transactions |-> 0])
        i == Find(s0, t.Region)
    IN  [s0 EXCEPT ![i][2].total_sales = Amount(t),
                   ![i][2].transactions = @ + 1]

RegionStep(stats, t) ==
    LET s0 == SetDefault(stats, t.Region, [total_sales |-> FZero, transactions |-> 0])
        i == Find(s0, t.Region)
    IN  [s0 EXCEPT ![i][2].total_sales = FAdd(@, Amount(t)),
                   ![i][2].transactions = @ + 1]

RECURSIVE RegionLoop(_, _)
RegionLoop(stats, ts) ==
    IF ts = <<>> THEN stats ELSE RegionLoop(RegionStep(stats, Head(ts)), Tail(ts))

\* the percentage loop: (sales / total_revenue) * 100 if total_revenue else 0
WithPercentage(stats, total) ==
    [i \in 1..Len(stats) |->
        <<stats[i][1],
          [total_sales |-> stats[i][2].total_sales,
           transactions |-> stats[i][2].transactions,
           percentage |-> IF total # FZero
                          THEN Quotient(stats[i][2].total_sales, total)
                          ELSE 0]>>]

\* sorted(region_stats.items(), key=total_sales, reverse=True)
\* (variant: a sort that puts the later of two equal items first)
RegionSortUnstable(stats) ==
    StableSort(stats,
        [i \in 1..Len(stats) |-> [j \in 1..Len(stats) |->
            FLeq(stats[j][2].total_sales, stats[i][2].total_sales)]])

RegionSort(stats) ==
    StableSort(stats,
        [i \in 1..Len(stats) |-> [j \in 1..Len(stats) |->
            FLess(stats[j][2].total_sales, stats[i][2].total_sales)]])

region_wise_sales(ts) ==
    RegionSort(WithPercentage(RegionLoop(<<>>, ts), calculate_total_revenue(ts)))

-----------------------------------------------------------------------------
(* daily_sales_trend *)

\* (variant: the customers of a date counted with repetition)
DailyStepCountsRepeats(daily, t) ==
    LET d0 == SetDefault(daily, t.Date,
                  [revenue |-> FZero, transaction_count |-> 0, unique_customers |-> {}])
        i == Find(d0, t.Date)
    IN  [d0 EXCEPT ![i][2].revenue = FAdd(@, Amount(t)),
                   ![i][2].transaction_count = @ + 1,
                   ![i][2].unique_customers = @ \cup {<<t.CustomerID, Cardinality(@)>>}]

DailyStep(daily, t) ==
    LET d0 == SetDefault(daily, t.Date,
                  [revenue |-> FZero, transaction_count |-> 0, unique_customers |-> {}])
        i == Find(d0, t.Date)
    IN  [d0 EXCEPT ![i][2].revenue = FAdd(@, Amount(t)),
                   ![i][2].transaction_count = @ + 1,
                   ![i][2].unique_customers = @ \cup {t.CustomerID}]

RECURSIVE DailyLoop(_, _)
DailyLoop(daily, ts) ==
    IF ts = <<>> THEN daily ELSE DailyLoop(DailyStep(daily, Head(ts)), Tail(ts))

\* the loop that replaces each set of customers by its length
CustomerCounts(daily) ==
    [i \in 1..Len(daily) |->
        <<daily[i][1],
          [daily[i][2] EXCEPT !.unique_customers = Cardinality(@)]>>]

\* sorted(daily.items()): the keys are distinct, so the dates decide
SortByDate(items) ==
    StableSort(items,
        [i \in 1..Len(items) |-> [j \in 1..Len(items) |->
            StrLess(items[i][1], items[j][1])]])

daily_sales_trend(ts) == SortByDate(CustomerCounts(DailyLoop(<<>>, ts)))

-----------------------------------------------------------------------------
(* find_peak_sales_day *)

PeakStep(daily, t) ==
    LET d0 == SetDefault(daily, t.Date, [revenue |-> FZero, count |-> 0])
        i == Find(d0, t.Date)
    IN  [d0 EXCEPT ![i][2].revenue = FAdd(@, Amount(t)),
                   ![i][2].count = @ + 1]

RECURSIVE PeakLoop(_, _)
PeakLoop(daily, ts) ==
    IF ts = <<>> THEN daily ELSE PeakLoop(PeakStep(daily, Head(ts)), Tail(ts))

\* max(items, key=revenue) of a non-empty sequence: the first item among those
\* of the greatest key
\* (variant: the last item among those of the greatest key)
RECURSIVE MaxLoopLast(_, _)
MaxLoopLast(best, items) ==
    IF items = <<>> THEN best
    ELSE MaxLoopLast(IF FLeq(best[2].revenue, Head(items)[2].revenue)
                     THEN Head(items) ELSE best,
                     Tail(items))

MaxByRevenueLast(items) == MaxLoopLast(Head(items), Tail(items))

RECURSIVE MaxLoop(_, _)
MaxLoop(best, items) ==
    IF items = <<>> THEN best
    ELSE MaxLoop(IF FLess(best[2].revenue, Head(items)[2].revenue)
                 THEN Head(items) ELSE best,
                 Tail(items))

MaxByRevenue(items) == MaxLoop(Head(items), Tail(items))

\* the ValueError that max raises on an empty dict
ValueError == [raised |-> "ValueError"]

\* the returned tuple, or the ValueError
\* (variant: an empty dict answered with (None, 0.0, 0))
find_peak_sales_day_guarded(ts) ==
    LET daily == PeakLoop(<<>>, ts)
    IN  IF daily = <<>> THEN <<None, FZero, 0>>
        ELSE LET peak_date == MaxByRevenue(daily)
             IN  <<peak_date[1], peak_date[2].revenue, peak_date[2].count>>

find_peak_sales_day(ts) ==
    LET daily == PeakLoop(<<>>, ts)
    IN  IF daily = <<>> THEN ValueError
        ELSE LET peak_date == MaxByRevenue(daily)
             IN  <<peak_date[1], peak_date[2].revenue, peak_date[2].count>>

-----------------------------------------------------------------------------
(* top_selling_products, low_performing_products *)

ProductStep(products, t) ==
    LET p0 == SetDefault(products, t.ProductName, [qty |-> 0, revenue |-> FZero])
        i == Find(p0, t.ProductName)
    IN  [p0 EXCEPT ![i][2].qty = @ + t.Quantity,
                   ![i][2].revenue = FAdd(@, Amount(t))]

RECURSIVE ProductLoop(_, _)
ProductLoop(products, ts) ==
    IF ts = <<>> THEN products
    ELSE ProductLoop(ProductStep(products, Head(ts)), Tail(ts))

\* [(name, v["qty"], v["revenue"]) for name, v in products.items()]
ProductTuples(products) ==
    [i \in 1..Len(products) |->
        <<products[i][1], products[i][2].qty, products[i][2].revenue>>]

\* result.sort(key=lambda x: x[1], reverse=True)
\* (variant: sorted on the revenue, x[2])
SortByRevenueDesc(result) ==
    StableSort(result,
        [i \in 1..Len(result) |-> [j \in 1..Len(result) |->
            FLess(result[j][3], result[i][3])]])

SortByQtyDesc(result) ==
    StableSort(result,
        [i \in 1..Len(result) |-> [j \in 1..Len(result) |->
            result[i][2] > result[j][2]]])

top_selling_products(ts, n) ==
    Take(SortByQtyDesc(ProductTuples(ProductLoop(<<>>, ts))), n)

\* result.sort(key=lambda x: x[1])
SortByQtyAsc(result) ==
    StableSort(result,
        [i \in 1..Len(result) |-> [j \in 1..Len(result) |->
            result[i][2] < result[j][2]]])

low_performing_products(ts, threshold) ==
    SortByQtyAsc(SelectSeq(ProductTuples(ProductLoop(<<>>, ts)),
                           LAMBDA x : x[2] < threshold))

-----------------------------------------------------------------------------
(* customer_analysis *)

CustomerStep(cs, t) ==
    LET c0 == SetDefault(cs, t.CustomerID,
                  [total_spent |-> FZero, purchase_count |-> 0, products |-> {}])
        i == Find(c0, t.CustomerID)
    IN  [c0 EXCEPT ![i][2].total_spent = FAdd(@, Amount(t)),
                   ![i][2].purchase_count = @ + 1,
                   ![i][2].products = @ \cup {t.ProductName}]

RECURSIVE CustomerLoop(_, _)
CustomerLoop(cs, ts) ==
    IF ts = <<>> THEN cs ELSE CustomerLoop(CustomerStep(cs, Head(ts)), Tail(ts))

\* the final formatting loop; products_bought is list(set), whose order Python
\* does not fix, and is kept as the set
customer_analysis(ts) ==
    LET cs == CustomerLoop(<<>>, ts)
    IN  [i \in 1..Len(cs) |->
            <<cs[i][1],
              [total_spent |-> cs[i][2].total_spent,
               purchase_count |-> cs[i][2].purchase_count,
               average_order_value |->
                   Quotient(cs[i][2].total_spent, FloatOf(cs[i][2].purchase_count)),
               products_bought |-> cs[i][2].products]>>]

-----------------------------------------------------------------------------
(* api_handler: create_product_mapping, enrich_sales_data *)

\* d[k] = v on a dict: the value replaced in place, or a new last item
DictSet(d, k, v) ==
    IF Find(d, k) = 0 THEN Append(d, <<k, v>>) ELSE [d EXCEPT ![Find(d, k)][2] = v]

\* the body of the loop of create_product_mapping; an id is None or Some(int)
MappingStep(mapping, p) ==
    IF p.id # None
    THEN DictSet(mapping, p.id,
                 [title |-> p.title, category |-> p.category,
                  brand |-> p.brand, rating |-> p.rating])
    ELSE mapping

RECURSIVE MappingLoop(_, _)
MappingLoop(mapping, ps) ==
    IF ps = <<>> THEN mapping ELSE MappingLoop(MappingStep(mapping, Head(ps)), Tail(ps))

create_product_mapping(ps) == MappingLoop(<<>>, ps)

\* int(s) of a str, s a sequence of characters: white space around the
\* literal is dropped, a sign may lead, then decimal digits, single
\* underscores allowed between digits; None stands for the ValueError
IsSpace(c) == c \in {" ", "\t", "\n"}

DigitChars == <<"0", "1", "2", "3", "4", "5", "6", "7", "8", "9">>
IsDigit(c) == \E i \in 1..Len(DigitChars) : DigitChars[i] = c
DigitValue(c) == (CHOOSE i \in 1..Len(DigitChars) : DigitChars[i] = c) - 1

RECURSIVE LStrip(_)
LStrip(s) == IF s # <<>> /\ IsSpace(Head(s)) THEN LStrip(Tail(s)) ELSE s

RECURSIVE RStrip(_)
RStrip(s) ==
    IF s # <<>> /\ IsSpace(s[Len(s)]) THEN RStrip(SubSeq(s, 1, Len(s) - 1)) ELSE s

\* the digits of the literal, read left to right; afterDigit: the character
\* before was a digit
RECURSIVE DigitsLoop(_, _, _)
DigitsLoop(s, acc, afterDigit) ==
    IF s = <<>> THEN (IF afterDigit THEN Some(acc) ELSE None)
    ELSE IF IsDigit(Head(s)) THEN DigitsLoop(Tail(s), 10 * acc + DigitValue(Head(s)), TRUE)
    ELSE IF Head(s) = "_" /\ afterDigit THEN DigitsLoop(Tail(s), acc, FALSE)
    ELSE None

IntOfStr(s) ==
    LET b == RStrip(LStrip(s))
        signed == b # <<>> /\ Head(b) \in {"+", "-"}
        digits == DigitsLoop(IF signed THEN Tail(b) ELSE b, 0, FALSE)
    IN  IF digits = None THEN None
        ELSE IF signed /\ Head(b) = "-" THEN Some(0 - digits[1])
        ELSE digits

\* s[1:]
DropFirst(s) == IF s = <<>> THEN <<>> ELSE Tail(s)

\* try: numeric_id = int(t["ProductID"][1:]) / except Exception: numeric_id = None
\* (variant: the whole ProductID read as the number)
NumericIdWholeID(t) == IntOfStr(t.ProductID)

NumericId(t) == IntOfStr(DropFirst(t.ProductID))

\* the body of the loop of enrich_sales_data: the copy of t with the four
\* API_ keys set
EnrichStep(t, mapping) ==
    LET numeric_id == NumericId(t)
        i == Find(mapping, numeric_id)
    IN  IF i # 0
        THEN [API_Category |-> mapping[i][2].category,
              API_Brand |-> mapping[i][2].brand,
              API_Rating |-> mapping[i][2].rating,
              API_Match |-> TRUE] @@ t
        ELSE [API_Category |-> None, API_Brand |-> None, API_Rating |-> None,
              API_Match |-> FALSE] @@ t

RECURSIVE EnrichLoop(_, _, _)
EnrichLoop(enriched, ts, mapping) ==
    IF ts = <<>> THEN enriched
    ELSE EnrichLoop(Append(enriched, EnrichStep(Head(ts), mapping)), Tail(ts), mapping)

enrich_sales_data(ts, mapping) == EnrichLoop(<<>>, ts, mapping)

-----------------------------------------------------------------------------
(* generate_sales_report *)

\* sum(t["Quantity"] * t["UnitPrice"] for t in transactions): the builtin
\* adds from the left, rounding every partial sum
RECURSIVE BuiltinSumLoop(_, _)
BuiltinSumLoop(total, ts) ==
    IF ts = <<>> THEN total
    ELSE BuiltinSumLoop(FAdd(total, Amount(Head(ts))), Tail(ts))

\* from CPython 3.12 on the builtin carries the rounding errors along and
\* adds them at the end, which gives the sum of the amounts rounded once
RECURSIVE UnroundedSumLoop(_, _, _)
UnroundedSumLoop(hi, lo, ts) ==
    IF ts = <<>> THEN Round(hi, lo)
    ELSE UnroundedSumLoop(hi + Amount(Head(ts)).hi, lo + Amount(Head(ts)).lo, Tail(ts))

\* the values sum() can return, by the interpreter that runs it
BuiltinSumOutcomes(ts) == {BuiltinSumLoop(FZero, ts), UnroundedSumLoop(0, 0, ts)}

\* min(dates) and max(dates) of a non-empty list of date strings
RECURSIVE MinDateLoop(_, _)
MinDateLoop(best, ds) ==
    IF ds = <<>> THEN best
    ELSE MinDateLoop(IF StrLess(Head(ds), best) THEN Head(ds) ELSE best, Tail(ds))

RECURSIVE MaxDateLoop(_, _)
MaxDateLoop(best, ds) ==
    IF ds = <<>> THEN best
    ELSE MaxDateLoop(IF StrLess(best, Head(ds)) THEN Head(ds) ELSE best, Tail(ds))

\* date_range: the pair (min, max), or "N/A"
DateRange(ts) ==
    LET dates == [i \in 1..Len(ts) |-> ts[i].Date]
    IN  IF dates = <<>> THEN <<"N/A">>
        ELSE <<MinDateLoop(Head(dates), Tail(dates)), MaxDateLoop(Head(dates), Tail(dates))>>

\* REGION-WISE PERFORMANCE; the int 0 a group starts from becomes a float with
\* the first amount added
ReportRegionStep(stats, t) ==
    LET s0 == SetDefault(stats, t.Region, [sales |-> FZero, count |-> 0])
        i == Find(s0, t.Region)
    IN  [s0 EXCEPT ![i][2].sales = FAdd(@, Amount(t)),
                   ![i][2].count = @ + 1]

RECURSIVE ReportRegionLoop(_, _)
ReportRegionLoop(stats, ts) ==
    IF ts = <<>> THEN stats
    ELSE ReportRegionLoop(ReportRegionStep(stats, Head(ts)), Tail(ts))

\* (sales / total_revenue) * 100 if total_revenue else 0
ReportPercentage(stats, total) ==
    [i \in 1..Len(stats) |->
        <<stats[i][1],
          [sales |-> stats[i][2].sales,
           count |-> stats[i][2].count,
           percentage |-> IF total # FZero
                          THEN Quotient(stats[i][2].sales, total)
                          ELSE 0]>>]

\* sorted(region_stats.items(), key=sales, reverse=True)
ReportRegionSort(stats) ==
    StableSort(stats,
        [i \in 1..Len(stats) |-> [j \in 1..Len(stats) |->
            FLess(stats[j][2].sales, stats[i][2].sales)]])

\* TOP 5 PRODUCTS
ReportProductStep(products, t) ==
    LET p0 == SetDefault(products, t.ProductName, [qty |-> 0, rev |-> FZero])
        i == Find(p0, t.ProductName)
    IN  [p0 EXCEPT ![i][2].qty = @ + t.Quantity,
                   ![i][2].rev = FAdd(@, Amount(t))]

RECURSIVE ReportProductLoop(_, _)
ReportProductLoop(products, ts) ==
    IF ts = <<>> THEN products
    ELSE ReportProductLoop(ReportProductStep(products, Head(ts)), Tail(ts))

ReportTopN == 5

\* sorted(products.items(), key=qty, reverse=True)[:5]
ReportTopProducts(products) ==
    Take(StableSort(products,
             [i \in 1..Len(products) |-> [j \in 1..Len(products) |->
                 products[i][2].qty > products[j][2].qty]]),
         ReportTopN)

\* TOP 5 CUSTOMERS
ReportCustomerStep(cs, t) ==
    LET c0 == SetDefault(cs, t.CustomerID, [spent |-> FZero, count |-> 0])
        i == Find(c0, t.CustomerID)
    IN  [c0 EXCEPT ![i][2].spent = FAdd(@, Amount(t)),
                   ![i][2].count = @ + 1]

RECURSIVE ReportCustomerLoop(_, _)
ReportCustomerLoop(cs, ts) ==
    IF ts = <<>> THEN cs
    ELSE ReportCustomerLoop(ReportCustomerStep(cs, Head(ts)), Tail(ts))

\* sorted(customers.items(), key=spent, reverse=True)[:5]
ReportTopCustomers(cs) ==
    Take(StableSort(cs,
             [i \in 1..Len(cs) |-> [j \in 1..Len(cs) |->
                 FLess(cs[j][2].spent, cs[i][2].spent)]]),
         ReportTopN)

\* DAILY SALES TREND
ReportDailyStep(daily, t) ==
    LET d0 == SetDefault(daily, t.Date, [rev |-> FZero, count |-> 0, customers |-> {}])
        i == Find(d0, t.Date)
    IN  [d0 EXCEPT ![i][2].rev = FAdd(@, Amount(t)),
                   ![i][2].count = @ + 1,
                   ![i][2].customers = @ \cup {t.CustomerID}]

RECURSIVE ReportDailyLoop(_, _)
ReportDailyLoop(daily, ts) ==
    IF ts = <<>> THEN daily
    ELSE ReportDailyLoop(ReportDailyStep(daily, Head(ts)), Tail(ts))

\* sorted(daily.items()): the dates are distinct and decide
ReportDailySort(daily) ==
    StableSort(daily,
        [i \in 1..Len(daily) |-> [j \in 1..Len(daily) |->
            StrLess(daily[i][1], daily[j][1])]])

\* PRODUCT PERFORMANCE ANALYSIS
\* max(daily.items(), key=rev) of a non-empty dict: the first item among those
\* of the greatest rev, in the insertion order of daily
RECURSIVE ReportMaxLoop(_, _)
ReportMaxLoop(best, items) ==
    IF items = <<>> THEN best
    ELSE ReportMaxLoop(IF FLess(best[2].rev, Head(items)[2].rev)
                       THEN Head(items) ELSE best,
                       Tail(items))

ReportLowThreshold == 10

\* [name for name, v in products.items() if v["qty"] < 10]
ReportLowProducts(products) ==
    LET low == SelectSeq(products, LAMBDA x : x[2].qty < ReportLowThreshold)
    IN  [i \in 1..Len(low) |-> low[i][1]]

\* {r: v["sales"] / v["count"] for r, v in region_stats.items()}
AvgTxnRegion(stats) ==
    [i \in 1..Len(stats) |->
        <<stats[i][1], Quotient(stats[i][2].sales, FloatOf(stats[i][2].count))>>]

\* API ENRICHMENT SUMMARY
\* the characters of a product name, for the comparison of sorted()
NameCodes(name) ==
    CASE name = "Widget" -> <<87, 105, 100, 103, 101, 116>>
      [] name = "Gadget" -> <<71, 97, 100, 103, 101, 116>>
      [] name = "Turbine" -> <<84, 117, 114, 98, 105, 110, 101>>
      [] name = "Bad" -> <<66, 97, 100>>

\* sorted(S) of a set of names
RECURSIVE SortedNames(_)
SortedNames(S) ==
    IF S = {} THEN <<>>
    ELSE LET m == CHOOSE x \in S :
                      \A y \in S \ {x} : StrLess(NameCodes(x), NameCodes(y))
         IN  <<m>> \o SortedNames(S \ {m})

EnrichmentSummary(enriched) ==
    LET matched == {i \in 1..Len(enriched) : enriched[i].API_Match}
    IN  [enriched_count |-> Cardinality(matched),
         success_rate |-> IF enriched # <<>>
                          THEN Quotient(Cardinality(matched), Len(enriched))
                          ELSE 0,
         not_enriched |-> SortedNames({enriched[i].ProductName :
                                           i \in (1..Len(enriched)) \ matched})]

\* the statements from OVERALL SUMMARY to the end: what is written to the
\* file, total being the value sum() returned; max raises the ValueError on
\* an empty daily, before the file is opened
ReportBody(ts, enriched, total) ==
    LET region_stats_r == ReportPercentage(ReportRegionLoop(<<>>, ts), total)
        products == ReportProductLoop(<<>>, ts)
        daily == ReportDailyLoop(<<>>, ts)
    IN  IF daily = <<>> THEN ValueError
        ELSE [total_records |-> Len(ts),
              total_revenue |-> total,
              avg_order_value |-> IF Len(ts) # 0
                                  THEN Quotient(total, FloatOf(Len(ts))) ELSE 0,
              date_range |-> DateRange(ts),
              region_sorted |-> ReportRegionSort(region_stats_r),
              top_products |-> ReportTopProducts(products),
              top_customers |-> ReportTopCustomers(ReportCustomerLoop(<<>>, ts)),
              daily_sorted |-> ReportDailySort(daily),
              best_day |-> ReportMaxLoop(Head(daily), Tail(daily)),
              low_products |-> ReportLowProducts(products),
              avg_txn_region |-> AvgTxnRegion(region_stats_r),
              enrichment |-> EnrichmentSummary(enriched)]

\* the name datetime in the module: its only import is a statement of
\* customer_analysis placed after the return, so the name is never bound
DatetimeBound == FALSE

NameError == [raised |-> "NameError"]

\* the first statement, now = datetime.now()..., raises the NameError
generate_sales_report(ts, enriched, total) ==
    IF DatetimeBound THEN ReportBody(ts, enriched, total) ELSE NameError

-----------------------------------------------------------------------------
(* Inputs *)

\* the sequences over S of length at most n
SeqUpTo(S, n) == UNION {[1..k -> S] : k \in 0..n}

T1 == <<"T", "1">>
P1 == <<"P", "1">>
C1 == <<"C", "1">>
C2 == <<"C", "2">>
Day1 == <<49>>          \* "1"
Day2 == <<50>>          \* "2"
Day10 == <<49, 48>>     \* "10", which sorts before "2"

\* the structural checks a record fails, by field
FailedFields(t) ==
    {f \in {"Quantity", "UnitPrice", "TransactionID", "ProductID", "CustomerID", "Region"} :
        CASE f = "Quantity" -> ~(t.Quantity > 0)
          [] f = "UnitPrice" -> ~FLess(FZero, t.UnitPrice)
          [] f = "TransactionID" -> ~(Len(t.TransactionID) > 0 /\ Head(t.TransactionID) = "T")
          [] f = "ProductID" -> ~(Len(t.ProductID) > 0 /\ Head(t.ProductID) = "P")
          [] f = "CustomerID" -> ~(Len(t.CustomerID) > 0 /\ Head(t.CustomerID) = "C")
          [] f = "Region" -> ~(t.Region # "")}

\* parsed records for the structural checks: every field takes a passing and a
\* failing value, at most MaxFail fields of one record failing
CheckRecords ==
    {t \in [TransactionID : {T1, <<"X", "1">>},
            Date : {Day1},
            ProductID : {P1, <<"p", "1">>},
            ProductName : {"Widget"},
            Quantity : {0, 1},
            UnitPrice : {FloatOf(0), FloatOf(1)},
            CustomerID : {C1, <<>>},
            Region : {"North", ""}] : Cardinality(FailedFields(t)) <= MaxFail}

\* parsed records for the filters: two regions, the amounts 2, 4, ... and a
\* record of Quantity 0
FilterRecords ==
    [TransactionID : {T1},
     Date : {Day1},
     ProductID : {P1},
     ProductName : {"Widget"},
     Quantity : 0..MaxQty,
     UnitPrice : {FloatOf(2)},
     CustomerID : {C1},
     Region : {"North", "South"}]

FilterRegions == {None, Some(""), Some("North")}
\* no bound, the bound 0 and every amount of the records as a bound
FilterBounds == {None} \cup {Some(2 * q) : q \in 0..MaxQty}

\* the catalogue of the pipeline inputs: a product has one name, one unit
\* price, and is sold in one region on one day; the unit price of the
\* third is 9007199254740992 = 2^53, from where on floats are 2 apart
Products ==
    {[ProductID |-> <<"P", "1">>, ProductName |-> "Widget", UnitPrice |-> F(0, 1),
      Region |-> "North", Date |-> Day2],
     [ProductID |-> <<"P", "2">>, ProductName |-> "Gadget", UnitPrice |-> F(0, 2),
      Region |-> "South", Date |-> Day10],
     [ProductID |-> <<"P", "3">>, ProductName |-> "Turbine", UnitPrice |-> F(1, 0),
      Region |-> "West", Date |-> Day1]}

\* the row T3|...|P999|Bad|-1|50|C2|South, which the validation rejects
BadRow ==
    [TransactionID |-> <<"T", "3">>, Date |-> Day2, ProductID |-> <<"P", "9">>,
     ProductName |-> "Bad", Quantity |-> -1, UnitPrice |-> FloatOf(50), CustomerID |-> C2,
     Region |-> "South"]

PipelineRecords ==
    {[TransactionID |-> T1, Date |-> p.Date, ProductID |-> p.ProductID,
      ProductName |-> p.ProductName, Quantity |-> q, UnitPrice |-> p.UnitPrice,
      CustomerID |-> c, Region |-> p.Region] :
        p \in Products, q \in {1, 2}, c \in {C1, C2}} \cup {BadRow}

\* the products the catalogue collaborator returns: one without id, two of
\* the same id (one of them with null fields), one of another id
ApiProducts ==
    {[id |-> None, title |-> "Ghost", category |-> Some("tools"),
      brand |-> Some("Acme"), price |-> Some(9), rating |-> Some(4)],
     [id |-> Some(1), title |-> "Hammer", category |-> Some("tools"),
      brand |-> Some("Acme"), price |-> Some(9), rating |-> Some(4)],
     [id |-> Some(1), title |-> "Mallet", category |-> None,
      brand |-> None, price |-> None, rating |-> None],
     [id |-> Some(10), title |-> "Robot", category |-> Some("toys"),
      brand |-> Some("Bolt"), price |-> Some(7), rating |-> Some(5)]}

\* the ProductIDs of the records handed to enrich_sales_data
EnrichIDs ==
    {<<"P", "1">>, <<"P", "1", "0">>, <<"P", "0", "1">>, <<"P", "2">>,
     <<"P", " ", "1">>, <<"P", "1", "_", "0">>, <<"P", "-", "1">>,
     <<"P">>, <<"P", "1", "x">>, <<"X", "1">>, <<"1", "0">>, <<>>}

EnrichRecords ==
    [TransactionID : {T1},
     Date : {Day1},
     ProductID : EnrichIDs,
     ProductName : {"Widget"},
     Quantity : {1},
     UnitPrice : {FloatOf(1)},
     CustomerID : {C1},
     Region : {"North"}]


\* validated records for generate_sales_report: the products of the
\* pipeline inputs, in quantities below and at the threshold of the low
\* performing products
ReportRecords ==
    {[TransactionID |-> T1, Date |-> p.Date, ProductID |-> p.ProductID,
      ProductName |-> p.ProductName, Quantity |-> q, UnitPrice |-> p.UnitPrice,
      CustomerID |-> c, Region |-> p.Region] :
        p \in Products, q \in {1, 2, 10}, c \in {C1, C2}}

\* the catalogues of the report runs: empty, or the one product of id 1
ReportCatalogs ==
    {<<>>} \cup {<<p>> : p \in {x \in ApiProducts : x.title = "Hammer"}}

-----------------------------------------------------------------------------
(* State machine: main *)

NotYet == <<"not computed">>

InitResults ==
    /\ pc = "validate"
    /\ valid_transactions = NotYet
    /\ invalid_count = NotYet
    /\ summary = NotYet
    /\ total_revenue = NotYet
    /\ region_stats = NotYet
    /\ daily_trend = NotYet
    /\ peak = NotYet
    /\ top_products = NotYet
    /\ low_products = NotYet
    /\ customers = NotYet
    /\ report_written = FALSE
    /\ api_products = NotYet
    /\ product_mapping = NotYet
    /\ enriched_transactions = NotYet
    /\ report = NotYet

\* main: the parsed file, validate_and_filter called with all filters None
Init ==
    /\ transactions \in SeqUpTo(PipelineRecords, MaxTxns)
    /\ region = None
    /\ min_amount = None
    /\ max_amount = None
    /\ InitResults

\* validate_and_filter on records that pass or fail each check, no filter
InitValidate ==
    /\ transactions \in SeqUpTo(CheckRecords, MaxLen)
    /\ region = None
    /\ min_amount = None
    /\ max_amount = None
    /\ InitResults

\* validate_and_filter under every combination of filters
InitFilter ==
    /\ transactions \in SeqUpTo(FilterRecords, MaxFilterLen)
    /\ region \in FilterRegions
    /\ min_amount \in FilterBounds
    /\ max_amount \in FilterBounds
    /\ InitResults

ValidateAndFilter ==
    /\ pc = "validate"
    /\ LET r == validate_and_filter(transactions, region, min_amount, max_amount)
       IN  /\ valid_transactions' = r.valid
           /\ invalid_count' = r.invalid_count
           /\ summary' = r.summary
    /\ pc' = "total_revenue"
    /\ UNCHANGED <<transactions, region, min_amount, max_amount, total_revenue,
                   region_stats, daily_trend, peak, top_products, low_products,
                   customers, report_written>>
    /\ UNCHANGED apiVars

CalculateTotalRevenue ==
    /\ pc = "total_revenue"
    /\ total_revenue' = calculate_total_revenue(valid_transactions)
    /\ pc' = "region_stats"
    /\ UNCHANGED <<transactions, region, min_amount, max_amount, valid_transactions,
                   invalid_count, summary, region_stats, daily_trend, peak,
                   top_products, low_products, customers, report_written>>
    /\ UNCHANGED apiVars

RegionWiseSales ==
    /\ pc = "region_stats"
    /\ region_stats' = region_wise_sales(valid_transactions)
    /\ pc' = "daily_trend"
    /\ UNCHANGED <<transactions, region, min_amount, max_amount, valid_transactions,
                   invalid_count, summary, total_revenue, daily_trend, peak,
                   top_products, low_products, customers, report_written>>
    /\ UNCHANGED apiVars

DailySalesTrend ==
    /\ pc = "daily_trend"
    /\ daily_trend' = daily_sales_trend(valid_transactions)
    /\ pc' = "peak"
    /\ UNCHANGED <<transactions, region, min_amount, max_amount, valid_transactions,
                   invalid_count, summary, total_revenue, region_stats, peak,
                   top_products, low_products, customers, report_written>>
    /\ UNCHANGED apiVars

\* the ValueError is not caught: main ends there
FindPeakSalesDay ==
    /\ pc = "peak"
    /\ peak' = find_peak_sales_day(valid_transactions)
    /\ pc' = IF peak' = ValueError THEN "aborted" ELSE "top_products"
    /\ UNCHANGED <<transactions, region, min_amount, max_amount, valid_transactions,
                   invalid_count, summary, total_revenue, region_stats, daily_trend,
                   top_products, low_products, customers, report_written>>
    /\ UNCHANGED apiVars

TopN == 5
LowThreshold == 10

TopSellingProducts ==
    /\ pc = "top_products"
    /\ top_products' = top_selling_products(valid_transactions, TopN)
    /\ pc' = "low_products"
    /\ UNCHANGED <<transactions, region, min_amount, max_amount, valid_transactions,
                   invalid_count, summary, total_revenue, region_stats, daily_trend,
                   peak, low_products, customers, report_written>>
    /\ UNCHANGED apiVars

LowPerformingProducts ==
    /\ pc = "low_products"
    /\ low_products' = low_performing_products(valid_transactions, LowThreshold)
    /\ pc' = "customers"
    /\ UNCHANGED <<transactions, region, min_amount, max_amount, valid_transactions,
                   invalid_count, summary, total_revenue, region_stats, daily_trend,
                   peak, top_products, customers, report_written>>
    /\ UNCHANGED apiVars

CustomerAnalysis ==
    /\ pc = "customers"
    /\ customers' = customer_analysis(valid_transactions)
    /\ pc' = "report"
    /\ UNCHANGED <<transactions, region, min_amount, max_amount, valid_transactions,
                   invalid_count, summary, total_revenue, region_stats, daily_trend,
                   peak, top_products, low_products, report_written>>
    /\ UNCHANGED apiVars

WriteReport ==
    /\ pc = "report"
    /\ report_written' = TRUE
    /\ pc' = "done"
    /\ UNCHANGED <<transactions, region, min_amount, max_amount, valid_transactions,
                   invalid_count, summary, total_revenue, region_stats, daily_trend,
                   peak, top_products, low_products, customers>>
    /\ UNCHANGED apiVars

Next ==
    \/ ValidateAndFilter
    \/ CalculateTotalRevenue
    \/ RegionWiseSales
    \/ DailySalesTrend
    \/ FindPeakSalesDay
    \/ TopSellingProducts
    \/ LowPerformingProducts
    \/ CustomerAnalysis
    \/ WriteReport

Spec == Init /\ [][Next]_vars

\* a single call of validate_and_filter
SpecValidate == InitValidate /\ [][ValidateAndFilter]_vars
SpecFilter == InitFilter /\ [][ValidateAndFilter]_vars

-----------------------------------------------------------------------------
(* State machine: the enrichment *)

\* nothing of main has run, nothing is enriched or reported yet
MainNotRun ==
    /\ region = None
    /\ min_amount = None
    /\ max_amount = None
    /\ valid_transactions = NotYet
    /\ invalid_count = NotYet
    /\ summary = NotYet
    /\ total_revenue = NotYet
    /\ region_stats = NotYet
    /\ daily_trend = NotYet
    /\ peak = NotYet
    /\ top_products = NotYet
    /\ low_products = NotYet
    /\ customers = NotYet
    /\ report_written = FALSE
    /\ product_mapping = NotYet
    /\ enriched_transactions = NotYet
    /\ report = NotYet

\* a catalogue and a list of transactions for enrich_sales_data
InitEnrich ==
    /\ transactions \in SeqUpTo(EnrichRecords, MaxEnrichLen)
    /\ api_products \in SeqUpTo(ApiProducts, MaxCatalog)
    /\ pc = "create_mapping"
    /\ MainNotRun

\* a validated list of transactions, to be enriched and reported
InitReport ==
    /\ transactions \in SeqUpTo(ReportRecords, MaxReportLen)
    /\ api_products \in ReportCatalogs
    /\ pc = "create_mapping"
    /\ MainNotRun

mainVars == <<region, min_amount, max_amount, valid_transactions, invalid_count,
              summary, total_revenue, region_stats, daily_trend, peak,
              top_products, low_products, customers, report_written>>

CreateProductMapping ==
    /\ pc = "create_mapping"
    /\ product_mapping' = create_product_mapping(api_products)
    /\ pc' = "enrich"
    /\ UNCHANGED <<transactions, api_products, enriched_transactions, report>>
    /\ UNCHANGED mainVars

EnrichSalesData ==
    /\ pc = "enrich"
    /\ enriched_transactions' = enrich_sales_data(transactions, product_mapping)
    /\ pc' = "generate_report"
    /\ UNCHANGED <<transactions, api_products, product_mapping, report>>
    /\ UNCHANGED mainVars

NextEnrich ==
    \/ CreateProductMapping
    \/ EnrichSalesData

SpecEnrich == InitEnrich /\ [][NextEnrich]_vars

\* the file is written unless an exception ends the call
GenerateSalesReport ==
    /\ pc = "generate_report"
    /\ \E total \in BuiltinSumOutcomes(transactions) :
           report' = generate_sales_report(transactions, enriched_transactions, total)
    /\ pc' = IF report' \in {NameError, ValueError} THEN "aborted" ELSE "reported"
    /\ UNCHANGED <<transactions, api_products, product_mapping, enriched_transactions>>
    /\ UNCHANGED mainVars

NextReport ==
    \/ CreateProductMapping
    \/ EnrichSalesData
    \/ GenerateSalesReport

SpecReport == InitReport /\ [][NextReport]_vars

-----------------------------------------------------------------------------
(* Vocabulary of the properties, stated on the input and not on the code *)

Indices(ts) == 1..Len(ts)

\* a record passes the five structural checks
PassesAllChecks(t) == FailedFields(t) = {}

\* the positions of ts whose record satisfies P
Positions(ts, P(_)) == {i \in Indices(ts) : P(ts[i])}

\* the sum of f over the finite set S
RECURSIVE SumOver(_, _)
SumOver(f(_), S) ==
    IF S = {} THEN 0
    ELSE LET x == CHOOSE y \in S : TRUE IN f(x) + SumOver(f, S \ {x})

\* ts without its p-th record
RemoveAt(ts, p) == SubSeq(ts, 1, p - 1) \o SubSeq(ts, p + 1, Len(ts))

\* a is b with some records left out, the others in the order of b
RECURSIVE IsSubsequence(_, _)
IsSubsequence(a, b) ==
    IF a = <<>> THEN TRUE
    ELSE IF b = <<>> THEN FALSE
    ELSE IF Head(a) = Head(b) THEN IsSubsequence(Tail(a), Tail(b))
    ELSE IsSubsequence(a, Tail(b))

\* the first position of ts whose record has value k under Key
FirstPosition(ts, Key(_), k) ==
    CHOOSE i \in Indices(ts) :
        /\ Key(ts[i]) = k
        /\ \A j \in 1..(i - 1) : Key(ts[j]) # k

NoFilter == region = None /\ min_amount = None /\ max_amount = None

Validated == pc # "validate"

-----------------------------------------------------------------------------
(* C1 *)

-----------------------------------------------------------------------------
(* C2 *)

\* C2: in the summary total_input is the length of the input, invalid_records
\* the number of records failing the structural checks (the returned
\* invalid_count), final_valid the length of the returned list; the records a
\* filter excluded are in neither count, so the three add up to total_input
\* with them, and without them when no filter is supplied.
C2_SummaryCounts ==
    Validated =>
        LET failing == Positions(transactions, LAMBDA t : ~PassesAllChecks(t))
            excluded == Positions(transactions,
                            LAMBDA t : /\ PassesAllChecks(t)
                                       /\ FilteredOut(t, region, min_amount, max_amount))
        IN  /\ summary.total_input = Len(transactions)
            /\ summary.invalid_records = Cardinality(failing)
            /\ summary.invalid_records = invalid_count
            /\ summary.final_valid = Len(valid_transactions)
            /\ summary.total_input =
                   summary.invalid_records + summary.final_valid + Cardinality(excluded)
            /\ NoFilter =>
                   summary.total_input = summary.invalid_records + summary.final_valid

\* a call in which one record was invalid, one excluded by a filter, one kept
C2_Witness ==
    /\ Validated
    /\ summary.total_input = 3
    /\ summary.invalid_records = 1
    /\ summary.final_valid = 1

-----------------------------------------------------------------------------
(* C3 *)

\* C3: when min_amount is supplied every returned record has an amount of at
\* least min_amount, when max_amount is supplied every returned record has an
\* amount of at most max_amount, for every supplied value, 0 included.
C3_BoundsRespected ==
    Validated =>
        \A i \in Indices(valid_transactions) :
            /\ min_amount # None =>
                   FLeq(FloatOf(min_amount[1]), Amount(valid_transactions[i]))
            /\ max_amount # None =>
                   FLeq(Amount(valid_transactions[i]), FloatOf(max_amount[1]))

-----------------------------------------------------------------------------
(* C4 *)

\* the record with every failing field given a passing value
Corrected(t) ==
    [t EXCEPT !.Quantity = IF @ > 0 THEN @ ELSE 1,
              !.UnitPrice = IF FLess(FZero, @) THEN @ ELSE FloatOf(1),
              !.TransactionID = IF StartsWith(@, "T") THEN @ ELSE <<"T">> \o @,
              !.ProductID = IF StartsWith(@, "P") THEN @ ELSE <<"P">> \o @,
              !.CustomerID = IF StartsWith(@, "C") THEN @ ELSE <<"C">> \o @,
              !.Region = IF @ # "" THEN @ ELSE "North"]

\* C4: a record that fails a structural check, at any position of the input,
\* adds exactly 1 to invalid_records and to total_input and leaves final_valid,
\* the returned list and the aggregates of the returned list as they are
\* without it; the same record with its failing fields corrected is accepted.
C4_InvalidRecordFrame ==
    Validated =>
        \A p \in Indices(transactions) :
            ~PassesAllChecks(transactions[p]) =>
                LET without == validate_and_filter(RemoveAt(transactions, p),
                                                   region, min_amount, max_amount)
                    fixed == validate_and_filter(
                                 [transactions EXCEPT ![p] = Corrected(@)],
                                 region, min_amount, max_amount)
                IN  /\ summary.invalid_records = without.summary.invalid_records + 1
                    /\ invalid_count = without.invalid_count + 1
                    /\ summary.total_input = without.summary.total_input + 1
                    /\ summary.final_valid = without.summary.final_valid
                    /\ valid_transactions = without.valid
                    /\ calculate_total_revenue(valid_transactions) =
                           calculate_total_revenue(without.valid)
                    /\ region_wise_sales(valid_transactions) =
                           region_wise_sales(without.valid)
                    /\ fixed.invalid_count = invalid_count - 1
                    /\ NoFilter =>
                        /\ Len(fixed.valid) = Len(valid_transactions) + 1
                        /\ \E i \in Indices(fixed.valid) :
                               fixed.valid[i] = Corrected(transactions[p])

\* a call whose input has a failing record in front of a passing one
C4_Witness ==
    /\ Validated
    /\ Len(transactions) = 2
    /\ ~PassesAllChecks(transactions[1])
    /\ PassesAllChecks(transactions[2])
    /\ invalid_count = 1
    /\ valid_transactions = <<transactions[2]>>

-----------------------------------------------------------------------------
(* C5 *)

\* C5: the returned list is a subsequence of the input: only input records,
\* none more often than in the input, in the order of the input, under every
\* combination of filters.
C5_StableSubsequence ==
    Validated => IsSubsequence(valid_transactions, transactions)

\* a call that returned two different records and left out, by a filter, the
\* record between them
C5_Witness ==
    /\ Validated
    /\ Len(transactions) = 3
    /\ PassesAllChecks(transactions[2])
    /\ valid_transactions = <<transactions[1], transactions[3]>>
    /\ transactions[1] # transactions[3]

-----------------------------------------------------------------------------
(* Sums for the properties of the aggregates *)

\* the real number that is the sum of the floats of the sequence fs, not rounded
ExactSum(fs) ==
    F(SumOver(LAMBDA i : fs[i].hi, Indices(fs)),
      SumOver(LAMBDA i : fs[i].lo, Indices(fs)))

\* the amounts of the records of ts with value k under Key, added up in input
\* order as floats
RECURSIVE GroupRevenue(_, _, _)
GroupRevenue(Key(_), k, ts) ==
    IF ts = <<>> THEN FZero
    ELSE LET rest == GroupRevenue(Key, k, SubSeq(ts, 1, Len(ts) - 1))
             t == ts[Len(ts)]
         IN  IF Key(t) = k THEN FAdd(rest, Amount(t)) ELSE rest

GroupCount(ts, Key(_), k) == Cardinality({i \in Indices(ts) : Key(ts[i]) = k})

GroupQuantity(ts, Key(_), k) ==
    SumOver(LAMBDA i : IF Key(ts[i]) = k THEN ts[i].Quantity ELSE 0, Indices(ts))

RegionOf(t) == t.Region
DateOf(t) == t.Date
NameOf(t) == t.ProductName

\* the real numbers s and total differ by at most n * 2^-52 * total, which is
\* 2 * n * total.hi, less than 1 added; below 2^53 they are equal
WithinRounding(s, total, n) ==
    /\ s.hi = total.hi
    /\ s.lo - total.lo <= 2 * n * total.hi
    /\ total.lo - s.lo <= 2 * n * total.hi

\* every amount and every sum of the returned records is below 2^53
BelowTwoTo53 == ExactSum([i \in Indices(valid_transactions) |->
                              Amount(valid_transactions[i])]).hi = 0

-----------------------------------------------------------------------------
(* C6 *)

RegionTotals == [i \in Indices(region_stats) |-> region_stats[i][2].total_sales]

RegionCountsAddUp ==
    SumOver(LAMBDA i : region_stats[i][2].transactions, Indices(region_stats))
        = Len(valid_transactions)

\* C6: the total_sales of the regions returned by region_wise_sales add up to
\* calculate_total_revenue of the same sequence, the transaction counts of the
\* regions add up to the number of transactions, and the revenue of the empty
\* sequence is 0.
C6_RegionTotalsEqualRevenue ==
    pc = "daily_trend" =>
        /\ ExactSum(RegionTotals) = total_revenue
        /\ RegionCountsAddUp
        /\ valid_transactions = <<>> => total_revenue = FZero

\* C6 as amended: the region totals add up to the total revenue within the
\* rounding of the float additions (n * 2^-52 of the total, n the number of
\* transactions), and exactly when all sums are integers below 2^53; the
\* counts add up exactly; the revenue of the empty sequence is 0.
C6_RegionTotalsWithinRounding ==
    pc = "daily_trend" =>
        /\ WithinRounding(ExactSum(RegionTotals), total_revenue,
                          Len(valid_transactions))
        /\ BelowTwoTo53 => ExactSum(RegionTotals) = total_revenue
        /\ RegionCountsAddUp
        /\ valid_transactions = <<>> => total_revenue = FZero

\* two regions, one of them with two transactions, and a total that the
\* additions rounded
C6_Witness ==
    /\ pc = "daily_trend"
    /\ Len(region_stats) = 2
    /\ \E i \in Indices(region_stats) : region_stats[i][2].transactions = 2
    /\ ExactSum(RegionTotals) # total_revenue

-----------------------------------------------------------------------------
(* C7 *)

DailyRevenues == [i \in Indices(daily_trend) |-> daily_trend[i][2].revenue]

DailyCountsAndCustomers ==
    /\ SumOver(LAMBDA i : daily_trend[i][2].transaction_count, Indices(daily_trend))
           = Len(valid_transactions)
    /\ \A i \in Indices(daily_trend) :
           LET onDate == {j \in Indices(valid_transactions) :
                              valid_transactions[j].Date = daily_trend[i][1]}
           IN  /\ daily_trend[i][2].unique_customers =
                      Cardinality({valid_transactions[j].CustomerID : j \in onDate})
               /\ daily_trend[i][2].transaction_count = Cardinality(onDate)
               /\ 1 <= daily_trend[i][2].unique_customers
               /\ daily_trend[i][2].unique_customers <= daily_trend[i][2].transaction_count

\* C7: the revenues of the dates returned by daily_sales_trend add up to
\* calculate_total_revenue of the same sequence, the transaction counts of the
\* dates add up to the number of transactions, and unique_customers of a date
\* is the number of distinct CustomerIDs of that date, between 1 and the
\* transaction count of the date.
C7_DailyRevenuesEqualRevenue ==
    pc = "peak" =>
        /\ ExactSum(DailyRevenues) = total_revenue
        /\ DailyCountsAndCustomers

\* C7 as amended: the equality of the revenues holds within the rounding of
\* the float additions, and exactly when all sums are integers below 2^53.
C7_DailyRevenuesWithinRounding ==
    pc = "peak" =>
        /\ WithinRounding(ExactSum(DailyRevenues), total_revenue,
                          Len(valid_transactions))
        /\ BelowTwoTo53 => ExactSum(DailyRevenues) = total_revenue
        /\ DailyCountsAndCustomers

\* a date with three transactions of two customers
C7_Witness ==
    /\ pc = "peak"
    /\ \E i \in Indices(daily_trend) :
           /\ daily_trend[i][2].transaction_count = 3
           /\ daily_trend[i][2].unique_customers = 2

-----------------------------------------------------------------------------
(* C8 *)

\* C8: region_wise_sales lists the regions by total_sales, greatest first,
\* and regions of equal total_sales in the order in which the input first
\* mentions them.
C8_RegionsSortedStable ==
    pc = "daily_trend" =>
        \A i, j \in Indices(region_stats) :
            i < j =>
                /\ FLeq(region_stats[j][2].total_sales, region_stats[i][2].total_sales)
                /\ region_stats[i][2].total_sales = region_stats[j][2].total_sales =>
                       FirstPosition(valid_transactions, RegionOf, region_stats[i][1])
                           < FirstPosition(valid_transactions, RegionOf, region_stats[j][1])

\* three regions, the last two of equal total_sales
C8_Witness ==
    /\ pc = "daily_trend"
    /\ Len(region_stats) = 3
    /\ region_stats[2][2].total_sales = region_stats[3][2].total_sales

-----------------------------------------------------------------------------
(* C9 *)

ProductNames == {valid_transactions[i].ProductName : i \in Indices(valid_transactions)}

\* res is the ranking of the first n products
IsTopN(res, n) ==
    /\ Len(res) = IF n < Cardinality(ProductNames) THEN n ELSE Cardinality(ProductNames)
    /\ \A i \in Indices(res) :
           /\ res[i][1] \in ProductNames
           /\ res[i][2] = GroupQuantity(valid_transactions, NameOf, res[i][1])
           /\ res[i][3] = GroupRevenue(NameOf, res[i][1], valid_transactions)
    /\ \A i, j \in Indices(res) :
           i < j =>
               /\ res[i][1] # res[j][1]
               /\ res[i][2] >= res[j][2]
               /\ res[i][2] = res[j][2] =>
                      FirstPosition(valid_transactions, NameOf, res[i][1])
                          < FirstPosition(valid_transactions, NameOf, res[j][1])
    /\ \A name \in ProductNames \ {res[i][1] : i \in Indices(res)} :
           \A i \in Indices(res) :
               GroupQuantity(valid_transactions, NameOf, name) <= res[i][2]

\* C9: for every n >= 0 top_selling_products returns min(n, number of product
\* names) entries, each with the summed quantity and the summed revenue of
\* its product, by total quantity, greatest first, products of equal quantity
\* in the order of their first occurrence, and no product left out has a
\* greater quantity than one returned.
C9_TopProducts ==
    pc = "low_products" =>
        /\ IsTopN(top_products, TopN)
        /\ \A n \in 0..MaxN :
               IsTopN(top_selling_products(valid_transactions, n), n)

\* three products, the first two of equal quantity, of which n = 2 keeps two
C9_Witness ==
    /\ pc = "low_products"
    /\ Len(top_products) = 3
    /\ top_products[1][2] = top_products[2][2]
    /\ top_products[2][2] > top_products[3][2]
    /\ Len(top_selling_products(valid_transactions, 2)) = 2

-----------------------------------------------------------------------------
(* C10 *)

Dates == {valid_transactions[i].Date : i \in Indices(valid_transactions)}

\* C10: on a non-empty sequence find_peak_sales_day returns (date, revenue,
\* count) with the summed amount and the transaction count of that date; no
\* date has a greater summed revenue, and of the dates with the greatest
\* revenue the returned one occurs first in the input.
C10_PeakDay ==
    (pc = "top_products" /\ valid_transactions # <<>>) =>
        /\ peak # ValueError
        /\ peak[1] \in Dates
        /\ peak[2] = GroupRevenue(DateOf, peak[1], valid_transactions)
        /\ peak[3] = GroupCount(valid_transactions, DateOf, peak[1])
        /\ \A d \in Dates :
               LET rev == GroupRevenue(DateOf, d, valid_transactions)
               IN  /\ FLeq(rev, peak[2])
                   /\ rev = peak[2] =>
                          FirstPosition(valid_transactions, DateOf, peak[1])
                              <= FirstPosition(valid_transactions, DateOf, d)

\* two dates share the greatest revenue
C10_Witness ==
    /\ pc = "top_products"
    /\ \E d \in Dates :
           /\ d # peak[1]
           /\ GroupRevenue(DateOf, d, valid_transactions) = peak[2]

-----------------------------------------------------------------------------
(* C11 *)

EightFields == {"TransactionID", "Date", "ProductID", "ProductName",
                "Quantity", "UnitPrice", "CustomerID", "Region"}

\* the integer that the ProductID without its first character denotes, None
\* when what is left is not the literal of an integer
ExpectedId(pid) ==
    CASE pid = <<"P", "1">> -> Some(1)
      [] pid = <<"P", "1", "0">> -> Some(10)
      [] pid = <<"P", "0", "1">> -> Some(1)
      [] pid = <<"P", "2">> -> Some(2)
      [] pid = <<"P", " ", "1">> -> Some(1)
      [] pid = <<"P", "1", "_", "0">> -> Some(10)
      [] pid = <<"P", "-", "1">> -> Some(-1)
      [] pid = <<"P">> -> None
      [] pid = <<"P", "1", "x">> -> None
      [] pid = <<"X", "1">> -> Some(1)
      [] pid = <<"1", "0">> -> Some(0)
      [] pid = <<>> -> None

\* the positions of the catalogue products with the id n
WithId(n) == {k \in Indices(api_products) : api_products[k].id = n}

\* the mapping has one entry for every id of the catalogue that is not null,
\* taken from the last product of that id
MappingOfCatalogue ==
    /\ \A k \in Indices(product_mapping) :
           /\ product_mapping[k][1] # None
           /\ WithId(product_mapping[k][1]) # {}
           /\ \A j \in Indices(product_mapping) :
                  product_mapping[j][1] = product_mapping[k][1] => j = k
           /\ LET p == api_products[CHOOSE i \in WithId(product_mapping[k][1]) :
                           \A j \in WithId(product_mapping[k][1]) : j <= i]
              IN  product_mapping[k][2] =
                      [title |-> p.title, category |-> p.category,
                       brand |-> p.brand, rating |-> p.rating]
    /\ \A i \in Indices(api_products) :
           api_products[i].id # None =>
               \E k \in Indices(product_mapping) :
                   product_mapping[k][1] = api_products[i].id

\* C11: enrich_sales_data returns one record per input transaction, in input
\* order, with the eight original fields unchanged; API_Match is true, with
\* API_Category, API_Brand and API_Rating copied from the catalogue entry,
\* exactly when the integer that the ProductID without its first character
\* denotes is a key of the mapping; otherwise (no such key, or no integer)
\* API_Match is false and the three fields are null, and no error is raised;
\* with an empty mapping API_Match is false on every record.
C11_EnrichedRecords ==
    pc = "generate_report" =>
        /\ MappingOfCatalogue
        /\ Len(enriched_transactions) = Len(transactions)
        /\ \A i \in Indices(transactions) :
               LET e == enriched_transactions[i]
                   t == transactions[i]
                   n == ExpectedId(t.ProductID)
                   entries == {k \in Indices(product_mapping) :
                                   n # None /\ product_mapping[k][1] = n}
               IN  /\ DOMAIN e = EightFields \cup
                          {"API_Category", "API_Brand", "API_Rating", "API_Match"}
                   /\ \A f \in EightFields : e[f] = t[f]
                   /\ e.API_Match = (entries # {})
                   /\ \A k \in entries :
                          /\ e.API_Category = product_mapping[k][2].category
                          /\ e.API_Brand = product_mapping[k][2].brand
                          /\ e.API_Rating = product_mapping[k][2].rating
                   /\ entries = {} =>
                          /\ e.API_Category = None
                          /\ e.API_Brand = None
                          /\ e.API_Rating = None
        /\ product_mapping = <<>> =>
               \A i \in Indices(enriched_transactions) :
                   ~enriched_transactions[i].API_Match

\* a matched record whose number is written with an underscore or a space,
\* next to a record whose suffix is not a number, under a catalogue of two
\* products
C11_Witness ==
    /\ pc = "generate_report"
    /\ Len(product_mapping) = 2
    /\ Len(enriched_transactions) = 2
    /\ enriched_transactions[1].API_Match
    /\ enriched_transactions[1].ProductID \in {<<"P", "1", "_", "0">>, <<"P", " ", "1">>}
    /\ ~enriched_transactions[2].API_Match
    /\ enriched_transactions[2].ProductID = <<"P", "1", "x">>

-----------------------------------------------------------------------------
(* C12 *)

\* the rows of the region table of the report are those of region_wise_sales
RegionTableAgrees ==
    LET agg == region_wise_sales(transactions)
    IN  /\ Len(report.region_sorted) = Len(agg)
        /\ \A i \in Indices(agg) :
               /\ report.region_sorted[i][1] = agg[i][1]
               /\ report.region_sorted[i][2].sales = agg[i][2].total_sales
               /\ report.region_sorted[i][2].count = agg[i][2].transactions
               /\ report.region_sorted[i][2].percentage = agg[i][2].percentage

TopTableAgrees ==
    [i \in Indices(report.top_products) |->
        <<report.top_products[i][1], report.top_products[i][2].qty,
          report.top_products[i][2].rev>>]
      = top_selling_products(transactions, TopN)

DailyTableAgrees ==
    LET agg == daily_sales_trend(transactions)
    IN  /\ Len(report.daily_sorted) = Len(agg)
        /\ \A i \in Indices(agg) :
               /\ report.daily_sorted[i][1] = agg[i][1]
               /\ report.daily_sorted[i][2].rev = agg[i][2].revenue
               /\ report.daily_sorted[i][2].count = agg[i][2].transaction_count
               /\ Cardinality(report.daily_sorted[i][2].customers)
                      = agg[i][2].unique_customers

BestDayAgrees ==
    LET agg == find_peak_sales_day(transactions)
    IN  /\ agg # ValueError
        /\ report.best_day[1] = agg[1]
        /\ report.best_day[2].rev = agg[2]
        /\ report.best_day[2].count = agg[3]

LowProductsAgree ==
    LET agg == low_performing_products(transactions, LowThreshold)
    IN  report.low_products = [i \in Indices(agg) |-> agg[i][1]]

\* the call of generate_sales_report has ended, with a report or an exception
ReportCallEnded == pc \in {"reported", "aborted"}

\* C12: for every non-empty validated sequence generate_sales_report renders
\* its aggregates, and each of them is, in members and in order, the result
\* of the aggregate function on the same sequence: the region table that of
\* region_wise_sales, the top 5 products that of top_selling_products(n=5),
\* the daily trend that of daily_sales_trend, the best selling day that of
\* find_peak_sales_day, the low performing products the names of
\* low_performing_products(threshold=10) in its order.
C12_ReportMatchesAggregators ==
    (ReportCallEnded /\ transactions # <<>>) =>
        /\ report \notin {NameError, ValueError}
        /\ RegionTableAgrees
        /\ TopTableAgrees
        /\ DailyTableAgrees
        /\ BestDayAgrees
        /\ LowProductsAgree

-----------------------------------------------------------------------------
(* C13 *)

====
